---- MODULE Spec2Model ----
(***************************************************************************)
(* Model of the interactive line editor of simple-shell-rust (src/main.rs). *)
(*                                                                         *)
(* A Rust String is modelled as a sequence of characters; every character  *)
(* has a UTF-8 width in bytes (len_utf8), and cursor_pos is a BYTE offset  *)
(* as in the source (String::insert, String::remove and String::len work   *)
(* on byte offsets and panic off a character boundary).                    *)
(* Option<T> is modelled as a sequence of length 0 (None) or 1 (Some).     *)
(*                                                                         *)
(* Specifications:                                                         *)
(*   Spec        main's input loop; one-byte keyboard, events not recorded *)
(*   SpecTraced  main's input loop; whole keyboard, events recorded,       *)
(*               terminal kept                                             *)
(*   SpecEvents  main's input loop; one-letter keyboard, events recorded   *)
(*   SpecRecall  CommandHistory::add / previous / next, call by call       *)
(*   SpecFilter  CommandHistory::add / filter_commands / previous          *)
(***************************************************************************)
EXTENDS Integers, Sequences, FiniteSets, TLC

VARIABLES
    commands,           \* CommandHistory.commands, newest first
    current_index,      \* CommandHistory.current_index : Option<usize>
    filtered_commands,  \* CommandHistory.filtered_commands
    original_input,     \* CommandHistory.original_input
    tab_index,          \* CommandHistory.tab_index : Option<usize>
    input,              \* main: let mut input (the line being edited)
    cursor_pos,         \* main: let mut cursor_pos (byte offset into input)
    submitted,          \* main: the trimmed input of the last finished cycle
    pc,                 \* "editing" | "interrupted" | "exited" | "panicked"
    keyboard,           \* the characters the keyboard of this run can send
    trace,              \* whether the run records each handled event in `event`
    watch,              \* whether the run keeps the terminal and the count of completion presses
    event,              \* the event (or CommandHistory call) handled last, when recorded
    ret,                \* value returned by the Option<String> call of the last step, if any
    prevRun,            \* driver: consecutive previous() calls since the recall cursor was None
    nextRun,            \* driver: consecutive next() calls after walking past the oldest entry
    panel,              \* terminal: the rows below the prompt line, when recorded
    column,             \* terminal: the column of the terminal cursor, when recorded
    tabRun,             \* completion presses in a row since there was no selection, when recorded
    tabStart            \* the buffer just before the first press of that row, when recorded

vars == <<commands, current_index, filtered_commands, original_input, tab_index,
          input, cursor_pos, submitted, pc, keyboard, trace, watch, event, ret, prevRun, nextRun,
          panel, column, tabRun, tabStart>>

histVars == <<commands, current_index, filtered_commands, original_input, tab_index>>
driverVars == <<prevRun, nextRun>>
screenVars == <<panel, column>>
tabVars == <<tabRun, tabStart>>

----------------------------------------------------------------------------
(* Bounds *)

\* longest line, in bytes, that the model lets the user type
MaxLen == 2

\* capacity of the history in the model; main passes 64 (src/main.rs:295)
max_size == 2

\* the characters the keyboard can send: a letter, a blank, and "E", which
\* stands for a two-byte character such as U+00E9
Chars == {"a", " ", "E"}

\* the rows that display_suggestions and clear_suggestions work on
PanelRows == 5

\* the host name printed in the prompt
hostname == <<"h">>

----------------------------------------------------------------------------
(* Option *)

None == <<>>
Some(x) == <<x>>

----------------------------------------------------------------------------
(* Strings *)

\* char::len_utf8
Width(c) == IF c = "E" THEN 2 ELSE 1

RECURSIVE ByteLen(_)
\* String::len: the length in bytes
ByteLen(s) == IF s = <<>> THEN 0 ELSE Width(Head(s)) + ByteLen(Tail(s))

\* str::is_char_boundary
IsCharBoundary(s, idx) == \E k \in 0..Len(s) : ByteLen(SubSeq(s, 1, k)) = idx

\* number of characters that lie before byte offset idx (idx on a boundary)
CharIndex(s, idx) == CHOOSE k \in 0..Len(s) : ByteLen(SubSeq(s, 1, k)) = idx

\* String::insert panics unless idx is on a character boundary
InsertPanics(s, idx) == ~IsCharBoundary(s, idx)

\* String::insert(idx, ch)
insert(s, idx, ch) ==
    LET k == CharIndex(s, idx)
    IN  SubSeq(s, 1, k) \o <<ch>> \o SubSeq(s, k + 1, Len(s))

\* String::remove panics off a character boundary and at the end of the string
RemovePanics(s, idx) == ~IsCharBoundary(s, idx) \/ idx >= ByteLen(s)

\* String::remove(idx): removes the whole character that starts at byte idx
remove(s, idx) ==
    LET k == CharIndex(s, idx)
    IN  SubSeq(s, 1, k) \o SubSeq(s, k + 2, Len(s))

\* char::is_whitespace
IsWhitespace(c) == c = " "

RECURSIVE trim_start(_)
\* str::trim_start
trim_start(s) ==
    IF s # <<>> /\ IsWhitespace(Head(s)) THEN trim_start(Tail(s)) ELSE s

RECURSIVE trim_end(_)
\* str::trim_end
trim_end(s) ==
    IF s # <<>> /\ IsWhitespace(s[Len(s)]) THEN trim_end(SubSeq(s, 1, Len(s) - 1)) ELSE s

\* str::trim
trim(s) == trim_start(trim_end(s))

\* str::starts_with
starts_with(s, p) == Len(p) <= Len(s) /\ SubSeq(s, 1, Len(p)) = p

RECURSIVE first_word(_)
\* the maximal run of non-whitespace characters at the start of u
first_word(u) ==
    IF u = <<>> \/ IsWhitespace(Head(u)) THEN <<>>
    ELSE <<Head(u)>> \o first_word(Tail(u))

\* input.split_whitespace().next(): Some(first token) or None
first_token(s) ==
    IF trim_start(s) = <<>> THEN None ELSE Some(first_word(trim_start(s)))

\* every string of at most n bytes over Chars
StringsUpTo(n) ==
    { s \in UNION { [1..k -> Chars] : k \in 0..n } : ByteLen(s) <= n }

----------------------------------------------------------------------------
(* CommandHistory *)

\* a plausible slip: the capacity test is made after the push, so nothing is evicted
add_mut_nocap(cmds, command) ==
    IF cmds = <<>> \/ cmds[1] # command THEN <<command>> \o cmds ELSE cmds

\* a plausible slip: the comparison with the newest entry is left out
add_mut_nodedup(cmds, command) ==
    <<command>> \o (IF Len(cmds) = max_size THEN SubSeq(cmds, 1, Len(cmds) - 1) ELSE cmds)

\* CommandHistory::add: the new value of commands
add(cmds, command) ==
    IF cmds = <<>> \/ cmds[1] # command
    THEN <<command>> \o (IF Len(cmds) = max_size THEN SubSeq(cmds, 1, Len(cmds) - 1) ELSE cmds)
    ELSE cmds

\* a plausible slip: the filter keeps every entry
filter_commands_mut_all(cmds, start) == cmds

\* a plausible slip: the filter tests equality instead of the prefix
filter_commands_mut(cmds, start) ==
    SelectSeq(cmds, LAMBDA cmd : cmd = start)

\* CommandHistory::filter_commands: the new value of filtered_commands
filter_commands(cmds, start) ==
    SelectSeq(cmds, LAMBDA cmd : starts_with(cmd, start))

\* a plausible slip: the test against the length is off by one (<= for <)
get_next_suggestion_mut_past(filt, orig, tab) ==
    IF filt = <<>> THEN [tab_index |-> tab, ret |-> None]
    ELSE IF tab = None THEN [tab_index |-> Some(0), ret |-> Some(filt[1])]
    ELSE IF tab[1] + 1 <= Len(filt)
         THEN [tab_index |-> Some(tab[1] + 1),
               ret |-> IF tab[1] + 1 < Len(filt) THEN Some(filt[tab[1] + 2]) ELSE Some(orig)]
         ELSE [tab_index |-> None, ret |-> Some(orig)]

\* a plausible slip: the walk wraps around to the first suggestion
get_next_suggestion_mut(filt, orig, tab) ==
    IF filt = <<>> THEN [tab_index |-> tab, ret |-> None]
    ELSE IF tab = None THEN [tab_index |-> Some(0), ret |-> Some(filt[1])]
    ELSE [tab_index |-> Some((tab[1] + 1) % Len(filt)),
          ret |-> Some(filt[((tab[1] + 1) % Len(filt)) + 1])]

\* CommandHistory::get_next_suggestion: the new tab_index and the value returned
get_next_suggestion(filt, orig, tab) ==
    IF filt = <<>> THEN [tab_index |-> tab, ret |-> None]
    ELSE IF tab = None THEN [tab_index |-> Some(0), ret |-> Some(filt[1])]
    ELSE IF tab[1] + 1 < Len(filt)
         THEN [tab_index |-> Some(tab[1] + 1), ret |-> Some(filt[tab[1] + 2])]
         ELSE [tab_index |-> None, ret |-> Some(orig)]

\* a plausible slip: the test against the length is off by one (<= for <)
previous_mut_past(cmds, cur) ==
    IF cmds = <<>> THEN [current_index |-> cur, ret |-> None]
    ELSE IF cur = None THEN [current_index |-> Some(0), ret |-> Some(cmds[1])]
    ELSE IF cur[1] + 1 <= Len(cmds)
         THEN [current_index |-> Some(cur[1] + 1),
               ret |-> IF cur[1] + 1 < Len(cmds) THEN Some(cmds[cur[1] + 2]) ELSE None]
         ELSE [current_index |-> cur, ret |-> None]

\* a plausible slip: the walk wraps from the oldest entry back to the newest
previous_mut(cmds, cur) ==
    IF cmds = <<>> THEN [current_index |-> cur, ret |-> None]
    ELSE IF cur = None THEN [current_index |-> Some(0), ret |-> Some(cmds[1])]
    ELSE [current_index |-> Some((cur[1] + 1) % Len(cmds)),
          ret |-> Some(cmds[((cur[1] + 1) % Len(cmds)) + 1])]

\* CommandHistory::previous: the new current_index and the value returned
previous(cmds, cur) ==
    IF cmds = <<>> THEN [current_index |-> cur, ret |-> None]
    ELSE IF cur = None THEN [current_index |-> Some(0), ret |-> Some(cmds[1])]
    ELSE IF cur[1] + 1 < Len(cmds)
         THEN [current_index |-> Some(cur[1] + 1), ret |-> Some(cmds[cur[1] + 2])]
         ELSE [current_index |-> cur, ret |-> None]

\* CommandHistory::next: the new current_index and the value returned
next(cmds, cur) ==
    IF cur = None THEN [current_index |-> None, ret |-> None]
    ELSE IF cur[1] = 0 THEN [current_index |-> None, ret |-> None]
    ELSE [current_index |-> Some(cur[1] - 1), ret |-> Some(cmds[cur[1]])]

----------------------------------------------------------------------------
(* The terminal.  A row of the panel is None when blank, or holds the      *)
(* suggestion printed on it and whether it was printed as the selected     *)
(* one.  Every character is one column wide.  The writes made inside       *)
(* redraw_line, display_suggestions and clear_suggestions are taken to     *)
(* succeed, and every prompt is taken to be printed from column 0.         *)

\* the width of "{}> " in columns, as the code computes it: hostname.len() + 2
PromptLen == ByteLen(hostname) + 2

\* the columns that print!("{}", s) moves the terminal cursor over
Cols(s) == Len(s)

\* the panel with every row blank
BlankPanel == [i \in 1..PanelRows |-> None]

\* display_suggestions: the panel it leaves, pan being the panel before
display_suggestions(pan, filt, tab) ==
    IF filt = <<>> THEN pan
    ELSE [i \in 1..PanelRows |->
             IF i <= Len(filt)
             THEN Some([text |-> filt[i], selected |-> tab = Some(i - 1)])
             ELSE None]

\* clear_suggestions: the panel it leaves
clear_suggestions == BlankPanel

\* redraw_line: the column it leaves the terminal cursor at
redraw_line(pos) == PromptLen + pos

----------------------------------------------------------------------------
(* main: the state after construction, at the first prompt.  In a run of   *)
(* Spec the keyboard sends one-byte characters only and `event` is not     *)
(* kept; a run of SpecTraced has the whole keyboard and keeps `event`     *)
(* and the terminal; a run of SpecEvents keeps `event` only.               *)

Init ==
    /\ commands = <<>>
    /\ current_index = None
    /\ filtered_commands = <<>>
    /\ original_input = <<>>
    /\ tab_index = None
    /\ input = <<>>
    /\ cursor_pos = 0
    /\ submitted = <<>>
    /\ pc = "editing"
    /\ keyboard = { c \in Chars : Width(c) = 1 }
    /\ trace = FALSE
    /\ watch = FALSE
    /\ event = <<"Start">>
    /\ ret = None
    /\ prevRun = 0
    /\ nextRun = 0
    /\ panel = BlankPanel
    /\ column = PromptLen
    /\ tabRun = 0
    /\ tabStart = <<>>

\* the same start, in a run whose keyboard also sends the two-byte character
\* and that records the events it handles
InitTraced ==
    /\ commands = <<>>
    /\ current_index = None
    /\ filtered_commands = <<>>
    /\ original_input = <<>>
    /\ tab_index = None
    /\ input = <<>>
    /\ cursor_pos = 0
    /\ submitted = <<>>
    /\ pc = "editing"
    /\ keyboard = Chars
    /\ trace = TRUE
    /\ watch = TRUE
    /\ event = <<"Start">>
    /\ ret = None
    /\ prevRun = 0
    /\ nextRun = 0
    /\ panel = BlankPanel
    /\ column = PromptLen
    /\ tabRun = 0
    /\ tabStart = <<>>

\* the same start, in a run whose keyboard sends one letter and that
\* records the events it handles but does not keep the terminal
InitEvents ==
    /\ commands = <<>>
    /\ current_index = None
    /\ filtered_commands = <<>>
    /\ original_input = <<>>
    /\ tab_index = None
    /\ input = <<>>
    /\ cursor_pos = 0
    /\ submitted = <<>>
    /\ pc = "editing"
    /\ keyboard = {"a"}
    /\ trace = TRUE
    /\ watch = FALSE
    /\ event = <<"Start">>
    /\ ret = None
    /\ prevRun = 0
    /\ nextRun = 0
    /\ panel = BlankPanel
    /\ column = PromptLen
    /\ tabRun = 0
    /\ tabStart = <<>>

\* event::read() returned e (kept only in a run that records events)
Observe(e) ==
    /\ keyboard' = keyboard
    /\ trace' = trace
    /\ watch' = watch
    /\ event' = IF trace THEN e ELSE event

\* what the handler left on the terminal (kept only in a run that watches it)
Screen(pan, col) ==
    /\ panel' = IF watch THEN pan ELSE panel
    /\ column' = IF watch THEN col ELSE column

\* the step was not a completion press that replaced the buffer
NoTabRun ==
    /\ tabRun' = 0
    /\ tabStart' = <<>>

\* history.filter_commands(&input) as the key handlers call it: all three fields it writes
FilterCommands(start) ==
    /\ filtered_commands' = filter_commands(commands, start)
    /\ tab_index' = None
    /\ original_input' = start

\* a Rust panic (String::insert / String::remove off a boundary) ends the process
Panic ==
    /\ pc' = "panicked"
    /\ UNCHANGED <<histVars, input, cursor_pos, submitted>>

\* the word that makes the dispatcher leave the shell
ExitWord == <<"e", "x", "i", "t">>

\* match cmd { ... }: "exit" ends the process, every other command returns to the prompt
Dispatch(line) ==
    IF first_token(line) = Some(ExitWord) THEN "exited" ELSE "editing"

\* a plausible slip: the untrimmed buffer is recorded and handed on
SubmittedLine_mut(buf) == buf

\* let mut input = input.trim().to_string();
SubmittedLine(buf) == trim(buf)

\* KeyCode::Enter, then the rest of the prompt cycle up to the next prompt
KeyEnter ==
    /\ pc = "editing"
    /\ Observe(<<"Enter">>)
    /\ ret' = None
    /\ LET line == SubmittedLine(input)
           h1 == IF line # <<>> THEN add(commands, line) ELSE commands
       IN  /\ commands' = add(h1, line)
           /\ current_index' = None
           /\ submitted' = line
           /\ pc' = Dispatch(line)
    /\ input' = <<>>
    /\ cursor_pos' = 0
    /\ Screen(clear_suggestions, PromptLen)
    /\ NoTabRun
    /\ UNCHANGED <<filtered_commands, original_input, tab_index, driverVars>>

\* KeyCode::Char(c)
KeyChar(c) ==
    /\ pc = "editing"
    /\ c \in keyboard
    /\ InsertPanics(input, cursor_pos) \/ ByteLen(input) + Width(c) <= MaxLen
    /\ Observe(<<"Char", c>>)
    /\ ret' = None
    /\ IF InsertPanics(input, cursor_pos)
       THEN Panic /\ Screen(panel, column)
       ELSE /\ input' = insert(input, cursor_pos, c)
            /\ cursor_pos' = cursor_pos + 1
            /\ FilterCommands(input')
            /\ Screen(display_suggestions(panel, filtered_commands', tab_index'),
                      redraw_line(cursor_pos'))
            /\ UNCHANGED <<commands, current_index, submitted, pc>>
    /\ NoTabRun
    /\ UNCHANGED driverVars

\* KeyCode::Backspace
KeyBackspace ==
    /\ pc = "editing"
    /\ Observe(<<"Backspace">>)
    /\ ret' = None
    /\ IF cursor_pos > 0
       THEN IF RemovePanics(input, cursor_pos - 1)
            THEN Panic /\ Screen(panel, column)
            ELSE /\ cursor_pos' = cursor_pos - 1
                 /\ input' = remove(input, cursor_pos - 1)
                 /\ FilterCommands(input')
                 /\ Screen(display_suggestions(panel, filtered_commands', tab_index'),
                           redraw_line(cursor_pos'))
                 /\ UNCHANGED <<commands, current_index, submitted, pc>>
       ELSE /\ Screen(display_suggestions(panel, filtered_commands, tab_index), column)
            /\ UNCHANGED <<histVars, input, cursor_pos, submitted, pc>>
    /\ NoTabRun
    /\ UNCHANGED driverVars

\* KeyCode::Delete
KeyDelete ==
    /\ pc = "editing"
    /\ Observe(<<"Delete">>)
    /\ ret' = None
    /\ IF cursor_pos < ByteLen(input)
       THEN IF RemovePanics(input, cursor_pos)
            THEN Panic /\ Screen(panel, column)
            ELSE /\ input' = remove(input, cursor_pos)
                 /\ FilterCommands(input')
                 /\ Screen(display_suggestions(panel, filtered_commands', tab_index'),
                           redraw_line(cursor_pos))
                 /\ UNCHANGED <<commands, current_index, cursor_pos, submitted, pc>>
       ELSE /\ Screen(display_suggestions(panel, filtered_commands, tab_index), column)
            /\ UNCHANGED <<histVars, input, cursor_pos, submitted, pc>>
    /\ NoTabRun
    /\ UNCHANGED driverVars

\* KeyCode::Left
KeyLeft ==
    /\ pc = "editing"
    /\ Observe(<<"Left">>)
    /\ ret' = None
    /\ cursor_pos' = IF cursor_pos > 0 THEN cursor_pos - 1 ELSE cursor_pos
    /\ Screen(display_suggestions(panel, filtered_commands, tab_index),
              IF cursor_pos > 0 THEN redraw_line(cursor_pos') ELSE column)
    /\ NoTabRun
    /\ UNCHANGED <<histVars, input, submitted, pc, driverVars>>

\* KeyCode::Right
KeyRight ==
    /\ pc = "editing"
    /\ Observe(<<"Right">>)
    /\ ret' = None
    /\ cursor_pos' = IF cursor_pos < ByteLen(input) THEN cursor_pos + 1 ELSE cursor_pos
    /\ Screen(display_suggestions(panel, filtered_commands, tab_index),
              IF cursor_pos < ByteLen(input) THEN redraw_line(cursor_pos') ELSE column)
    /\ NoTabRun
    /\ UNCHANGED <<histVars, input, submitted, pc, driverVars>>

\* the outcomes of a terminal write
WriteOutcomes == {"ok", "fail"}

\* KeyCode::Home; a failed write skips the rest of the iteration (continue)
KeyHome ==
    /\ pc = "editing"
    /\ \E w \in WriteOutcomes :
          /\ Observe(<<"Home", w>>)
          /\ IF w = "ok"
             THEN Screen(display_suggestions(panel, filtered_commands, tab_index), PromptLen)
             ELSE Screen(panel, column)
    /\ ret' = None
    /\ cursor_pos' = 0
    /\ NoTabRun
    /\ UNCHANGED <<histVars, input, submitted, pc, driverVars>>

\* KeyCode::End; a failed write skips the rest of the iteration (continue)
KeyEnd ==
    /\ pc = "editing"
    /\ \E w \in WriteOutcomes :
          /\ Observe(<<"End", w>>)
          /\ IF w = "ok"
             THEN Screen(display_suggestions(panel, filtered_commands, tab_index),
                         PromptLen + ByteLen(input))
             ELSE Screen(panel, column)
    /\ ret' = None
    /\ cursor_pos' = ByteLen(input)
    /\ NoTabRun
    /\ UNCHANGED <<histVars, input, submitted, pc, driverVars>>

\* KeyCode::Tab; when the first write fails the handler leaves before input = suggestion
KeyTab ==
    /\ pc = "editing"
    /\ LET r == get_next_suggestion(filtered_commands, original_input, tab_index)
       IN  /\ tab_index' = r.tab_index
           /\ ret' = r.ret
           /\ \E w \in WriteOutcomes :
                 /\ w = "fail" => r.ret # None
                 /\ Observe(<<"Tab", w>>)
                 /\ IF r.ret # None /\ w = "ok"
                    THEN /\ input' = r.ret[1]
                         /\ cursor_pos' = ByteLen(input')
                         /\ Screen(display_suggestions(panel, filtered_commands, r.tab_index),
                                   PromptLen + Cols(input'))
                         /\ tabRun' = IF ~watch THEN tabRun
                                      ELSE IF tab_index = None THEN 1
                                      ELSE IF tabRun > 0 THEN tabRun + 1 ELSE 0
                         /\ tabStart' = IF ~watch THEN tabStart
                                        ELSE IF tab_index = None THEN input
                                        ELSE tabStart
                    ELSE /\ UNCHANGED <<input, cursor_pos>>
                         /\ Screen(IF w = "ok"
                                   THEN display_suggestions(panel, filtered_commands, r.tab_index)
                                   ELSE panel,
                                   column)
                         /\ NoTabRun
    /\ UNCHANGED <<commands, current_index, filtered_commands, original_input,
                   submitted, pc, driverVars>>

\* keys that reach the arm `_ => {}` of the key match (the arm before it,
\* Char | Backspace | Delete => reset_tab_completion, is shadowed by the
\* earlier arms and never runs)
UnboundKeys == {"Up", "Down", "Esc"}

\* a plausible slip: the arm runs history.reset_tab_completion()
KeyOther_mut(k) ==
    /\ pc = "editing"
    /\ Observe(<<k>>)
    /\ ret' = None
    /\ tab_index' = None
    /\ Screen(display_suggestions(panel, filtered_commands, tab_index'), column)
    /\ NoTabRun
    /\ UNCHANGED <<commands, current_index, filtered_commands, original_input,
                   input, cursor_pos, submitted, pc, driverVars>>

\* a key with no arm of its own: nothing but the repaint
KeyOther(k) ==
    /\ pc = "editing"
    /\ Observe(<<k>>)
    /\ ret' = None
    /\ Screen(display_suggestions(panel, filtered_commands, tab_index), column)
    /\ NoTabRun
    /\ UNCHANGED <<histVars, input, cursor_pos, submitted, pc, driverVars>>

\* events the loop ignores, a resize (repaint only) and a failed read
IgnoredEvents == {"Mouse", "FocusGained", "FocusLost", "Paste", "Resize", "ReadErr"}

\* Event::Mouse, Event::FocusGained, Event::FocusLost, Event::Paste, Event::Resize, Err(_)
OtherEvent(e) ==
    /\ pc = "editing"
    /\ Observe(<<e>>)
    /\ ret' = None
    /\ Screen(panel, IF e = "Resize" THEN redraw_line(cursor_pos) ELSE column)
    /\ NoTabRun
    /\ UNCHANGED <<histVars, input, cursor_pos, submitted, pc, driverVars>>

\* a plausible slip: the interrupt leaves through the submission path
KeyCtrlC_mut ==
    /\ pc = "editing"
    /\ Observe(<<"CtrlC">>)
    /\ ret' = None
    /\ pc' = "interrupted"
    /\ commands' = add(commands, SubmittedLine(input))
    /\ UNCHANGED <<current_index, filtered_commands, original_input, tab_index,
                   input, cursor_pos, submitted, driverVars, screenVars, tabVars>>

\* Ctrl+C: std::process::exit(0)
KeyCtrlC ==
    /\ pc = "editing"
    /\ Observe(<<"CtrlC">>)
    /\ ret' = None
    /\ pc' = "interrupted"
    /\ UNCHANGED <<histVars, input, cursor_pos, submitted, driverVars, screenVars, tabVars>>

Next ==
    \/ KeyEnter
    \/ \E c \in Chars : KeyChar(c)
    \/ KeyBackspace
    \/ KeyDelete
    \/ KeyLeft
    \/ KeyRight
    \/ KeyHome
    \/ KeyEnd
    \/ KeyTab
    \/ \E k \in UnboundKeys : KeyOther(k)
    \/ \E e \in IgnoredEvents : OtherEvent(e)
    \/ KeyCtrlC

Spec == Init /\ [][Next]_vars

\* the same program with the whole keyboard, the handled events recorded
\* and the terminal kept
SpecTraced == InitTraced /\ [][Next]_vars

\* the same program with a one-letter keyboard, the handled events recorded
SpecEvents == InitEvents /\ [][Next]_vars

----------------------------------------------------------------------------
(* CommandHistory driven call by call, every call recorded in `event`.     *)
(* The driver counts, without looking at current_index, how far a walk     *)
(* with previous() and then next() has got since the recall cursor was     *)
(* last known to be None: prevRun = -1 means that the calls made so far    *)
(* follow no such walk.                                                    *)

\* the lines and prefixes the driver passes to add and filter_commands
Lines == { s \in StringsUpTo(MaxLen) : \A i \in 1..Len(s) : ~IsWhitespace(s[i]) }

\* the value of prevRun outside a walk
OffWalk == -1

\* history.add(command)
CallAdd(command) ==
    /\ pc = "editing"
    /\ Observe(<<"add", command>>)
    /\ commands' = add(commands, command)
    /\ current_index' = None
    /\ ret' = None
    /\ prevRun' = 0
    /\ nextRun' = 0
    /\ UNCHANGED <<filtered_commands, original_input, tab_index, input, cursor_pos,
                   submitted, pc, screenVars, tabVars>>

\* history.filter_commands(start)
CallFilterCommands(start) ==
    /\ pc = "editing"
    /\ Observe(<<"filter_commands", start>>)
    /\ FilterCommands(start)
    /\ ret' = None
    /\ UNCHANGED <<commands, current_index, input, cursor_pos, submitted, pc, driverVars,
                   screenVars, tabVars>>

\* history.previous()
CallPrevious ==
    /\ pc = "editing"
    /\ Observe(<<"previous">>)
    /\ LET r == previous(commands, current_index)
       IN  /\ current_index' = r.current_index
           /\ ret' = r.ret
    /\ IF prevRun = OffWalk
       THEN UNCHANGED driverVars
       ELSE IF nextRun = 0
       THEN /\ prevRun' = IF prevRun < max_size + 1 THEN prevRun + 1 ELSE prevRun
            /\ nextRun' = 0
       ELSE IF nextRun = Len(commands)
       THEN /\ prevRun' = 1
            /\ nextRun' = 0
       ELSE /\ prevRun' = OffWalk
            /\ nextRun' = 0
    /\ UNCHANGED <<commands, filtered_commands, original_input, tab_index,
                   input, cursor_pos, submitted, pc, screenVars, tabVars>>

\* history.next()
CallNext ==
    /\ pc = "editing"
    /\ Observe(<<"next">>)
    /\ LET r == next(commands, current_index)
       IN  /\ current_index' = r.current_index
           /\ ret' = r.ret
    /\ IF prevRun = OffWalk \/ prevRun = 0 \/ commands = <<>>
       THEN UNCHANGED driverVars
       ELSE IF prevRun < Len(commands)
       THEN /\ prevRun' = OffWalk
            /\ nextRun' = 0
       ELSE IF nextRun < Len(commands)
       THEN /\ nextRun' = nextRun + 1
            /\ UNCHANGED prevRun
       ELSE /\ prevRun' = 0
            /\ nextRun' = 0
    /\ UNCHANGED <<commands, filtered_commands, original_input, tab_index,
                   input, cursor_pos, submitted, pc, screenVars, tabVars>>

\* the recall calls: add, previous, next
NextRecall ==
    \/ \E command \in Lines : CallAdd(command)
    \/ CallPrevious
    \/ CallNext

SpecRecall == InitTraced /\ [][NextRecall]_vars

\* filter_commands, with add and previous to vary the entries and the recall cursor
NextFilter ==
    \/ \E command \in Lines : CallAdd(command)
    \/ \E start \in Lines : CallFilterCommands(start)
    \/ CallPrevious

SpecFilter == InitTraced /\ [][NextFilter]_vars

----------------------------------------------------------------------------
(* Reference notions used to state the properties *)

\* s without its k-th character
RemoveAt(s, k) == SubSeq(s, 1, k - 1) \o SubSeq(s, k + 1, Len(s))

\* t is s with the whitespace at both ends, and nothing else, taken away
IsTrimOf(t, s) ==
    /\ \E i \in 0..Len(s) : \E j \in i..Len(s) :
          /\ t = SubSeq(s, i + 1, j)
          /\ \A k \in 1..i : IsWhitespace(s[k])
          /\ \A k \in (j + 1)..Len(s) : IsWhitespace(s[k])
    /\ t # <<>> => ~IsWhitespace(t[1]) /\ ~IsWhitespace(t[Len(t)])

\* p is an initial segment of s
IsPrefix(p, s) == \E n \in 0..Len(s) : SubSeq(s, 1, n) = p

\* the positions of the entries of cmds that begin with p
Matching(cmds, p) == { i \in 1..Len(cmds) : IsPrefix(p, cmds[i]) }

\* the k-th smallest element of the set of positions S
Kth(S, k) == CHOOSE i \in S : Cardinality({ j \in S : j < i }) = k - 1

\* LineBuffer.insert of the specification: cur counts characters
RefInsert(s, cur, ch) == SubSeq(s, 1, cur) \o <<ch>> \o SubSeq(s, cur + 1, Len(s))

\* the recorded names of the key events that main gives a repaint
KeyEvents == {"Char", "Backspace", "Delete", "Left", "Right", "Home", "End", "Tab"}
                 \cup UnboundKeys

\* the recorded event is a key event none of whose writes failed
HandledKey(e) == e[1] \in KeyEvents /\ e[Len(e)] # "fail"

\* every candidate begins with p
AllExtend(cands, p) == \A i \in 1..Len(cands) : IsPrefix(p, cands[i])

----------------------------------------------------------------------------
(* Properties *)

\* C1: the history never contains the empty string (an Enter on a buffer
\* whose trimmed text is empty records nothing).
C1_NoEmptyEntry ==
    \A i \in 1..Len(commands) : commands[i] # <<>>

\* C2 as stated: with candidates and a selection, the completion key always
\* moves to (selected + 1) mod len(candidates) and returns that candidate.
C2_CyclingWraps ==
    [][ (tab_index # None /\ filtered_commands # <<>> /\ KeyTab) =>
            /\ tab_index' = Some((tab_index[1] + 1) % Len(filtered_commands))
            /\ ret' = Some(filtered_commands[((tab_index[1] + 1) % Len(filtered_commands)) + 1])
      ]_vars

\* C2 amended: with candidates and a selection, the completion key moves to the
\* next candidate and returns it while one is left; after the last candidate
\* it clears the selection and returns the text last given to filter_commands.
C2_CyclingRestores ==
    [][ (tab_index # None /\ filtered_commands # <<>> /\ KeyTab) =>
            IF tab_index[1] + 1 < Len(filtered_commands)
            THEN /\ tab_index' = Some(tab_index[1] + 1)
                 /\ ret' = Some(filtered_commands[tab_index[1] + 2])
            ELSE /\ tab_index' = None
                 /\ ret' = Some(original_input)
      ]_vars

\* the completion key has just gone past the last of two candidates
C2_Witness ==
    /\ Len(filtered_commands) = 2
    /\ tab_index = None
    /\ ret = Some(original_input)
    /\ filtered_commands[1] # original_input
    /\ filtered_commands[2] # original_input

\* C3: Up performs recall_previous and Down performs recall_next; when an
\* entry is returned the buffer becomes that entry with the cursor at its end.
C3_UpDownRecall ==
    [][ /\ (pc = "editing" /\ event'[1] = "Up") =>
              LET r == previous(commands, current_index)
              IN  /\ current_index' = r.current_index
                  /\ r.ret # None => (input' = r.ret[1] /\ cursor_pos' = ByteLen(r.ret[1]))
        /\ (pc = "editing" /\ event'[1] = "Down") =>
              LET r == next(commands, current_index)
              IN  /\ current_index' = r.current_index
                  /\ r.ret # None => (input' = r.ret[1] /\ cursor_pos' = ByteLen(r.ret[1]))
      ]_vars

\* C4: the history never holds more than max_size entries, and an add that
\* inserts at capacity drops the oldest entry and keeps the order of the rest.
C4_Capacity ==
    /\ [](Len(commands) <= max_size)
    /\ [][ (event'[1] = "add" /\ Len(commands) = max_size /\ commands' # commands) =>
              /\ commands'[1] = event'[2]
              /\ Tail(commands') = SubSeq(commands, 1, max_size - 1)
        ]_vars

\* an add at capacity: an entry that an earlier filter_commands saw is gone
C4_Witness ==
    /\ event[1] = "add"
    /\ Len(commands) = max_size
    /\ \E i \in 1..Len(filtered_commands) :
          \A j \in 1..Len(commands) : commands[j] # filtered_commands[i]

\* C5: no two entries adjacent in recency order are equal, and adding the
\* text of the newest entry again leaves the entries as they are.
C5_NoAdjacentDuplicates ==
    /\ [](\A i \in 1..(Len(commands) - 1) : commands[i] # commands[i + 1])
    /\ [][ (event'[1] = "add" /\ commands # <<>> /\ event'[2] = commands[1]) =>
              commands' = commands
        ]_vars

\* the one entry that filter_commands("") saw has been added again: still one entry
C5_Witness ==
    /\ event[1] = "add"
    /\ Len(commands) = 1
    /\ event[2] = commands[1]
    /\ original_input = <<>>
    /\ filtered_commands = commands

\* C6: from a recall cursor of None, the k-th previous() in a row returns the
\* k-th newest entry while k <= n and nothing afterwards (nothing at all on an
\* empty history); the next() calls that follow return the entries at indices
\* n-2 down to 0, one more returns nothing and clears the cursor; next() with
\* the cursor at None returns nothing.
C6_RecallWalk ==
    /\ (event[1] = "previous" /\ prevRun >= 1 /\ nextRun = 0) =>
          /\ ret = IF prevRun <= Len(commands) THEN Some(commands[prevRun]) ELSE None
          /\ commands # <<>> =>
                current_index = Some((IF prevRun <= Len(commands)
                                      THEN prevRun ELSE Len(commands)) - 1)
    /\ (event[1] = "next" /\ prevRun >= 1 /\ nextRun >= 1) =>
          /\ ret = IF nextRun < Len(commands)
                   THEN Some(commands[Len(commands) - nextRun]) ELSE None
          /\ nextRun = Len(commands) => current_index = None
    /\ (event[1] = "next" /\ (prevRun = 0 \/ commands = <<>>)) =>
          /\ ret = None
          /\ current_index = None

\* a whole walk: past the oldest of max_size entries, then back down until
\* next() returned nothing and cleared the cursor
C6_Witness ==
    /\ event[1] = "next"
    /\ Len(commands) = max_size
    /\ prevRun = max_size + 1
    /\ nextRun = max_size
    /\ ret = None

\* C7: filter_commands(prefix) leaves exactly the entries that begin with
\* prefix, once per occurrence and in the order of the history, and changes
\* neither the entries nor the recall cursor.
C7_FilterByPrefix ==
    [][ (event'[1] = "filter_commands") =>
            LET m == Matching(commands, event'[2])
            IN  /\ Len(filtered_commands') = Cardinality(m)
                /\ \A k \in 1..Cardinality(m) :
                      filtered_commands'[k] = commands[Kth(m, k)]
                /\ commands' = commands
                /\ current_index' = current_index
      ]_vars

\* a filter with a non-empty prefix, during a recall, that keeps the older
\* entry and leaves the newer one out
C7_Witness ==
    /\ event[1] = "filter_commands"
    /\ event[2] # <<>>
    /\ Len(commands) = 2
    /\ filtered_commands = <<commands[2]>>
    /\ commands[2] # event[2]
    /\ current_index # None

\* C8: while editing, 0 <= cursor <= len(text) and the cursor is a position
\* at which the buffer accepts an insertion.
C8_CursorValid ==
    pc = "editing" =>
        /\ 0 <= cursor_pos
        /\ cursor_pos <= ByteLen(input)
        /\ ~InsertPanics(input, cursor_pos)

\* C9: a character key inserts at the cursor and advances it by one;
\* Backspace with cursor > 0 removes the character before the cursor and
\* decrements it; Delete with cursor < len removes the character at the
\* cursor; Backspace at 0 and Delete at len change nothing; the loop goes on.
C9_EditingKeys ==
    [][ /\ \A c \in Chars : KeyChar(c) =>
              /\ input' = RefInsert(input, cursor_pos, c)
              /\ cursor_pos' = cursor_pos + 1
              /\ pc' = "editing"
        /\ KeyBackspace =>
              /\ IF cursor_pos > 0
                 THEN input' = RemoveAt(input, cursor_pos) /\ cursor_pos' = cursor_pos - 1
                 ELSE input' = input /\ cursor_pos' = cursor_pos
              /\ pc' = "editing"
        /\ KeyDelete =>
              /\ IF cursor_pos < Len(input)
                 THEN input' = RemoveAt(input, cursor_pos + 1)
                 ELSE input' = input
              /\ cursor_pos' = cursor_pos
              /\ pc' = "editing"
      ]_vars

\* C10: at Enter the line handed on is the buffer without the whitespace at
\* its ends, and a non-empty one is the newest history entry; the editing
\* keys change the buffer by at most the one character typed or deleted.
C10_TrimOnlyAtEnter ==
    [][ /\ (input' = <<>> /\ KeyEnter) =>
              /\ IsTrimOf(submitted', input)
              /\ submitted' # <<>> => commands'[1] = submitted'
        /\ (input' # input) =>
              ~(KeyLeft \/ KeyRight \/ KeyHome \/ KeyEnd)
        /\ \A c \in Chars : (input' # input /\ KeyChar(c)) =>
              \E k \in 1..Len(input') :
                  input'[k] = c /\ RemoveAt(input', k) = input
        /\ (input' # input /\ (KeyBackspace \/ KeyDelete)) =>
              \E k \in 1..Len(input) : RemoveAt(input, k) = input'
      ]_vars

\* a line typed with a leading blank has been submitted without it
C10_Witness ==
    /\ input = <<>>
    /\ commands # <<>>
    /\ original_input = <<" ", "a">>
    /\ submitted = <<"a">>
    /\ commands[1] = <<"a">>

\* C11: Ctrl+C is accepted in every Editing state and moves the process to
\* Interrupted; the step that gets there submits nothing and adds nothing to
\* the history, and no event is handled once the process is Interrupted.
C11_InterruptEnds ==
    /\ [](pc = "editing" => ENABLED KeyCtrlC)
    /\ [][ pc' = "interrupted" =>
              /\ pc = "editing"
              /\ commands' = commands
              /\ submitted' = submitted
              /\ input' = input
        ]_vars
    /\ [][ pc # "interrupted" ]_vars

\* interrupted with text in the buffer, a selection and a history
C11_Witness ==
    /\ pc = "interrupted"
    /\ input # <<>>
    /\ tab_index # None
    /\ commands # <<>>

\* C12: at the start of every prompt cycle there are no candidates and no
\* selection, and the completion key pressed first leaves the buffer empty.
C12_FreshPrompt ==
    /\ []( (pc = "editing" /\ event[1] \in {"Start", "Enter"}) =>
              (filtered_commands = <<>> /\ tab_index = None) )
    /\ [][ (pc = "editing" /\ event[1] \in {"Start", "Enter"} /\ event'[1] = "Tab") =>
              input' = <<>>
        ]_vars

\* C13 as stated: while editing, every candidate begins with the buffer text.
C13_CandidatesExtendBuffer ==
    pc = "editing" => AllExtend(filtered_commands, input)

\* C13 amended: while editing, every candidate begins with the text last given
\* to filter_commands; a key that changes the buffer either recomputes the
\* candidates for the new buffer (character, Backspace, Delete), or leaves
\* them as they are and sets the buffer to a candidate or to that text
\* (completion key) or to the empty line (new prompt).
C13_CandidatesExtendTyped ==
    /\ [](pc = "editing" => AllExtend(filtered_commands, original_input))
    /\ [][ (pc' = "editing" /\ input' # input) =>
              \/ /\ original_input' = input'
                 /\ AllExtend(filtered_commands', input')
              \/ /\ filtered_commands' = filtered_commands
                 /\ original_input' = original_input
                 /\ \/ input' = <<>>
                    \/ input' = original_input
                    \/ \E i \in 1..Len(filtered_commands) : input' = filtered_commands[i]
        ]_vars

\* the completion key has put a candidate in the buffer that another
\* candidate does not begin with
C13_Witness ==
    /\ pc = "editing"
    /\ tab_index # None
    /\ input = filtered_commands[tab_index[1] + 1]
    /\ ~AllExtend(filtered_commands, input)

\* C14: the selection, when present, is an index into the candidates:
\* 0 <= selected < len(candidates).
C14_SelectionInRange ==
    tab_index # None =>
        /\ 0 <= tab_index[1]
        /\ tab_index[1] < Len(filtered_commands)

\* the last of two candidates is selected, at a new prompt after a submission
C14_Witness ==
    /\ Len(filtered_commands) = 2
    /\ tab_index = Some(1)
    /\ input = <<>>
    /\ submitted # <<>>
    /\ pc = "editing"

\* C15: a key handled with a failed terminal write keeps the loop in Editing
\* and leaves the buffer, the cursor, the history and the selection as the
\* same key leaves them when the write succeeds.
C15_FailedWriteSameState ==
    [][ (pc = "editing" /\ event'[Len(event')] = "fail") =>
            /\ pc' = "editing"
            /\ commands' = commands
            /\ event'[1] = "Home" =>
                  (input' = input /\ cursor_pos' = 0 /\ tab_index' = tab_index)
            /\ event'[1] = "End" =>
                  (input' = input /\ cursor_pos' = ByteLen(input) /\ tab_index' = tab_index)
            /\ event'[1] = "Tab" =>
                  LET r == get_next_suggestion(filtered_commands, original_input, tab_index)
                  IN  /\ tab_index' = r.tab_index
                      /\ input' = r.ret[1]
                      /\ cursor_pos' = ByteLen(r.ret[1])
      ]_vars

\* C16: after a key event whose writes succeeded, row i of the panel shows
\* candidate i for i <= min(PanelRows, n) and every other row is blank.
C16_PanelShowsCandidates ==
    (pc = "editing" /\ HandledKey(event)) =>
        \A i \in 1..PanelRows :
            IF i <= Len(filtered_commands)
            THEN panel[i] # None /\ panel[i][1].text = filtered_commands[i]
            ELSE panel[i] = None

\* C17: a key event whose writes succeeded, handled with the terminal cursor
\* at column len(prompt) + cursor, leaves it at column len(prompt) + cursor.
C17_CursorColumn ==
    [][ (pc = "editing" /\ pc' = "editing" /\ HandledKey(event')
            /\ column = PromptLen + cursor_pos) =>
            column' = PromptLen + cursor_pos'
      ]_vars

\* C18: pointer, focus and paste events, a resize, a failed read and a key
\* with no binding change neither the buffer, the cursor, the history, the
\* recall cursor, the candidates nor the selection, and the loop goes on.
C18_IgnoredEvents ==
    [][ (pc = "editing" /\ event'[1] \in IgnoredEvents \cup UnboundKeys) =>
            /\ UNCHANGED <<input, cursor_pos, commands, current_index,
                           filtered_commands, tab_index>>
            /\ pc' = "editing"
      ]_vars

\* a key with no binding has been pressed while a candidate was selected
\* and shown in the buffer
C18_Witness ==
    /\ event[1] \in UnboundKeys
    /\ tab_index # None
    /\ input # <<>>
    /\ input = filtered_commands[tab_index[1] + 1]
    /\ current_index = None
    /\ pc = "editing"

\* C19: len(candidates) + 1 completion presses in a row, begun with
\* candidates and no selection, leave the buffer as it was before the first
\* press, with no selection.
C19_CompletionRoundTrip ==
    (pc = "editing" /\ tabRun = Len(filtered_commands) + 1) =>
        /\ input = tabStart
        /\ tab_index = None

\* C20: the recall cursor is None or an index below the number of entries,
\* and every add sets it to None.
C20_RecallCursorInRange ==
    /\ [](current_index # None =>
              (0 <= current_index[1] /\ current_index[1] < Len(commands)))
    /\ [][ event'[1] = "add" => current_index' = None ]_vars

\* previous() at the oldest entry of a full history: the cursor stays on it
C20_Witness ==
    /\ event[1] = "previous"
    /\ Len(commands) = max_size
    /\ current_index = Some(max_size - 1)
    /\ ret = None

====
